---- MODULE Spec2Model ----
(***************************************************************************)
(* Job lifecycle of src/download.py: the two module-level tables           *)
(* download_status and download_files, the temporary directory of a        *)
(* download, the background worker download_video with its progress_hook,  *)
(* and the request handlers start_download, get_download_status,           *)
(* download_file (with its delayed cleanup thread) and cleanup_download.    *)
(*                                                                         *)
(* The tables are keyed by the uuid4 of a download and no handler touches  *)
(* another key, so the model follows the key of one download, download_id, *)
(* through every handler.  Threads interleave between statements: every    *)
(* table access and every file-system call is a step of its own.           *)
(***************************************************************************)
EXTENDS Integers, Sequences, FiniteSets, Bags, TLC

\* ---------------------------------------------------------------- bounds
MaxDeferred == 1    \* cleanup threads started by successful retrievals
MaxNow == 1         \* concurrent DELETE /cleanup requests
MaxFragments == 3   \* fragments of an exception message given to the handler
MaxRetrieves == 2   \* retrievals followed with the clock of the sleeps

\* ------------------------------------------------------------- constants
ProgressCap == 99

download_id == "d1"

QUALITY_FORMATS == {"highest", "high", "medium", "low", "audio", "auto"}

\* ------------------------------------------------------------ dictionaries
EmptyDict == [k \in {} |-> 0]
Put(d, k, v) == [x \in (DOMAIN d) \cup {k} |-> IF x = k THEN v ELSE d[x]]
Del(d, k) == [x \in (DOMAIN d) \ {k} |-> d[x]]
Update(d, k, r) == [d EXCEPT ![k] = [f \in DOMAIN d[k] |-> IF f \in DOMAIN r THEN r[f] ELSE d[k][f]]]

VARIABLES
  download_status,  \* dict: download id -> status record
  download_files,   \* dict: download id -> file record
  temp_dir,         \* the directory made by mkdtemp: [exists, media, other]
  startResp,        \* response of POST /download: "none", "400", "200"
  startUrl,         \* url of the last POST /download, after strip() (line 265)
  quality,          \* argument quality of the worker thread
  wpc,              \* position of the worker thread in download_video
  exc,              \* message of the exception the worker caught (<<>> = none)
  downloaded_file,  \* worker local of lines 194-206: size read at line 198 (0 = None)
  rpc,              \* position of a GET /status request
  fpc,              \* position of a GET /file request
  dpc,              \* delayed cleanup threads: line -> number of threads there
  cpc               \* DELETE /cleanup requests: line -> number of requests there

vars == <<download_status, download_files, temp_dir, startResp, startUrl, quality, wpc, exc,
          downloaded_file, rpc, fpc, dpc, cpc>>

tables == <<download_status, download_files>>
workerVars == <<wpc, exc, downloaded_file>>
startVars == <<startResp, startUrl, quality>>
handlerVars == <<rpc, fpc, dpc, cpc>>

\* ------------------------------------------------------------ file system
NoDir == [exists |-> FALSE, media |-> 0, other |-> FALSE]
FreshDir == [exists |-> TRUE, media |-> 0, other |-> FALSE]
\* os.path.exists(file_path): the media file of the download
FileExists == temp_dir.exists /\ temp_dir.media > 0
\* os.listdir(temp_dir) is empty
DirEmpty == temp_dir.media = 0 /\ ~temp_dir.other

\* ---------------------------------------------------------- status records
\* speed and eta are display strings that no decision reads; title stands
\* for the pair of keys title and duration; file_size = 0 and quality = ""
\* stand for an absent key.
StatusRec(s, p, m, pct, t, fsz, q) ==
  [status |-> s, progress |-> p, message |-> m, pct |-> pct, title |-> t,
   file_size |-> fsz, quality |-> q]

Min(a, b) == IF a < b THEN a ELSE b

\* ------------------------------------------------------- thread positions
\* The cleanup threads run the same code on the same key and carry no
\* identity, and so do the DELETE /cleanup requests: dpc and cpc are bags of
\* the lines at which they stand.  ok and err are a thread that ended (err:
\* through the handler of line 348); idle is a request not yet made, ret200
\* and ret500 are a request that has been answered.
Move(bag, from, to) == (bag (-) SetToBag({from})) (+) SetToBag({to})

\* ------------------------------------------------------------------- Init
Init ==
  /\ download_status = EmptyDict
  /\ download_files = EmptyDict
  /\ temp_dir = NoDir
  /\ startResp = "none"
  /\ startUrl = ""
  /\ quality = ""
  /\ wpc = "idle"
  /\ exc = <<>>
  /\ downloaded_file = 0
  /\ rpc = "idle"
  /\ fpc = "idle"
  /\ dpc = EmptyBag
  /\ cpc = [l \in {"idle"} |-> MaxNow]

\* --------------------------------------------------------- start_download
Urls == {"", "not a url", "https://youtu.be/abc"}
is_valid_youtube_url(url) == url = "https://youtu.be/abc"
Qualities == {"high", "bogus"}

\* mutant of StartRejected: the directory of line 282 is made before the
\* tests of lines 269-273
StartRejectedAfterMkdtemp(url) ==
  /\ wpc = "idle"
  /\ url = "" \/ ~is_valid_youtube_url(url)
  /\ startResp' = "400"
  /\ startUrl' = url
  /\ temp_dir' = FreshDir
  /\ UNCHANGED <<tables, quality, workerVars, handlerVars>>

\* POST /download refused: url missing or not a YouTube url.  Requests are
\* followed until the one download of the model has been accepted.
StartRejected(url) ==
  /\ wpc = "idle"
  /\ url = "" \/ ~is_valid_youtube_url(url)
  /\ startResp' = "400"
  /\ startUrl' = url
  /\ UNCHANGED <<tables, temp_dir, quality, workerVars, handlerVars>>

\* POST /download accepted: uuid4, mkdtemp, thread.start(), 200
StartAccepted(url, q) ==
  /\ wpc = "idle"
  /\ url # "" /\ is_valid_youtube_url(url)
  /\ quality' = IF q \in QUALITY_FORMATS THEN q ELSE "auto"
  /\ temp_dir' = FreshDir
  /\ wpc' = "spawned"
  /\ startResp' = "200"
  /\ startUrl' = url
  /\ UNCHANGED <<tables, exc, downloaded_file, handlerVars>>

start_download ==
  \E url \in Urls, q \in Qualities : StartRejected(url) \/ StartAccepted(url, q)

\* ---------------------------------------------------------- download_video
\* The message of an exception, str(e), is kept as the sequence of its
\* fragments: the substrings that the handler looks for are fragments of
\* their own, and Text is the string itself.  str(KeyError(download_id)) is
\* the repr of the key.
NoException == <<>>
KeyErrorText == <<"'d1'">>
MissingFileText == <<"Downloaded file not found">>
EngineErrors ==
  {<<"ERROR: unable to download video data: ", "HTTP Error 403", ": Forbidden">>,
   <<"ERROR: ", "Private video", ". ", "Video unavailable">>,
   <<"ERROR: Unsupported URL">>}

RECURSIVE Text(_)
Text(msg) == IF msg = <<>> THEN "" ELSE Head(msg) \o Text(Tail(msg))

\* sub in msg, for the substrings the handler looks for
Contains(msg, sub) == \E i \in 1..Len(msg) : msg[i] = sub

\* mutant of CleanErrorMessage: 'Private video' is looked for before 'Video
\* unavailable'
CleanErrorMessagePrivateFirst(error_message) ==
  IF Contains(error_message, "Remote end closed connection")
  THEN "Connection lost during download. Please try again with a different quality or check your internet connection."
  ELSE IF Contains(error_message, "HTTP Error 403")
  THEN "Access denied. This video might be restricted or require authentication."
  ELSE IF Contains(error_message, "Private video")
  THEN "This is a private video and cannot be downloaded."
  ELSE IF Contains(error_message, "Video unavailable")
  THEN "This video is not available for download."
  ELSE Text(error_message)

\* lines 224-233
CleanErrorMessage(error_message) ==
  IF Contains(error_message, "Remote end closed connection")
  THEN "Connection lost during download. Please try again with a different quality or check your internet connection."
  ELSE IF Contains(error_message, "HTTP Error 403")
  THEN "Access denied. This video might be restricted or require authentication."
  ELSE IF Contains(error_message, "Video unavailable")
  THEN "This video is not available for download."
  ELSE IF Contains(error_message, "Private video")
  THEN "This is a private video and cannot be downloaded."
  ELSE Text(error_message)

\* line 94: the first statement of the thread
WorkerInit ==
  /\ wpc = "spawned"
  /\ download_status' = Put(download_status, download_id,
        StatusRec("downloading", 0, "Initializing download...", 0, FALSE, 0, ""))
  /\ wpc' = "l179"
  /\ UNCHANGED <<download_files, temp_dir, startVars, exc, downloaded_file, handlerVars>>

\* line 179: download_status[download_id]['message'] = ...
WorkerExtractMsg ==
  /\ wpc = "l179"
  /\ IF download_id \in DOMAIN download_status
     THEN /\ download_status' = Update(download_status, download_id,
                [message |-> "Extracting video information...", pct |-> 0])
          /\ wpc' = "l180"
          /\ exc' = exc
     ELSE /\ wpc' = "except"
          /\ exc' = KeyErrorText
          /\ UNCHANGED download_status
  /\ UNCHANGED <<download_files, temp_dir, startVars, downloaded_file, handlerVars>>

\* line 180: ydl.extract_info returns the metadata
WorkerExtractInfo ==
  /\ wpc = "l180"
  /\ wpc' = "l184"
  /\ UNCHANGED <<tables, temp_dir, startVars, exc, downloaded_file, handlerVars>>

\* line 180: ydl.extract_info raises
WorkerExtractFails(msg) ==
  /\ wpc = "l180"
  /\ wpc' = "except"
  /\ exc' = msg
  /\ UNCHANGED <<tables, temp_dir, startVars, downloaded_file, handlerVars>>

\* mutant of WorkerRecordInfo: the KeyError of the update is not caught by
\* the handler of line 223 and ends the thread
WorkerRecordInfoUncaught ==
  /\ wpc = "l184"
  /\ IF download_id \in DOMAIN download_status
     THEN /\ download_status' = Update(download_status, download_id,
                [title |-> TRUE, message |-> "Starting download...", pct |-> 0])
          /\ wpc' = "l191"
     ELSE /\ wpc' = "died"
          /\ UNCHANGED download_status
  /\ UNCHANGED <<download_files, temp_dir, startVars, exc, downloaded_file, handlerVars>>

\* lines 184-188: download_status[download_id].update({title, duration, message})
WorkerRecordInfo ==
  /\ wpc = "l184"
  /\ IF download_id \in DOMAIN download_status
     THEN /\ download_status' = Update(download_status, download_id,
                [title |-> TRUE, message |-> "Starting download...", pct |-> 0])
          /\ wpc' = "l191"
          /\ exc' = exc
     ELSE /\ wpc' = "except"
          /\ exc' = KeyErrorText
          /\ UNCHANGED download_status
  /\ UNCHANGED <<download_files, temp_dir, startVars, downloaded_file, handlerVars>>

\* ------------------------------------------------------------ progress_hook
\* An event d of the engine.  total_bytes = 0 and total_bytes_estimate = 0
\* stand for a missing or falsy value, percent_str = "" for a missing key.
PercentStrings == {"", " 50.0%", "100.0%", "N/A"}
ProgressEvents ==
  [status : {"downloading"}, downloaded_bytes : {0, 1, 2, 3}, total_bytes : {0, 2},
   total_bytes_estimate : {0, 2}, percent_str : PercentStrings]
  \cup
  [status : {"finished"}, downloaded_bytes : {2}, total_bytes : {2},
   total_bytes_estimate : {0}, percent_str : {""}]

\* int((downloaded / total) * 100): the quotients used here are exact in
\* binary floating point, so the truncation is the integer quotient
IntPercent(downloaded, total) == (downloaded * 100) \div total

\* int(float(s.replace('%', ''))); -1 stands for the ValueError of float()
ParsePercent(s) ==
  CASE s = " 50.0%" -> 50
    [] s = "100.0%" -> 100
    [] OTHER -> -1

\* lines 106-115
HookProgress(d) ==
  IF d.total_bytes # 0 THEN IntPercent(d.downloaded_bytes, d.total_bytes)
  ELSE IF d.total_bytes_estimate # 0
       THEN IntPercent(d.downloaded_bytes, d.total_bytes_estimate)
  ELSE IF d.percent_str # ""
       THEN (IF ParsePercent(d.percent_str) = -1 THEN 0 ELSE ParsePercent(d.percent_str))
  ELSE 0

\* mutant of HookDownloadingUpdate: the cap of line 122 is left out
HookDownloadingUpdateNoCap(progress) ==
  [progress |-> progress, message |-> "Downloading...", pct |-> progress]

\* lines 121-126: the record written for an in-progress event
HookDownloadingUpdate(progress) ==
  [progress |-> Min(progress, ProgressCap), message |-> "Downloading...", pct |-> progress]

\* lines 129-134: the record written for a unit-finished event
HookFinishedUpdate ==
  [progress |-> ProgressCap, message |-> "Processing and finalizing...", pct |-> 0]

\* lines 102-137, called by the engine during ydl.download (line 191); a
\* KeyError of the update is caught and printed (lines 136-137)
progress_hook(d) ==
  /\ wpc = "l191"
  /\ IF download_id \in DOMAIN download_status
     THEN download_status' = Update(download_status, download_id,
             IF d.status = "downloading" THEN HookDownloadingUpdate(HookProgress(d))
             ELSE HookFinishedUpdate)
     ELSE UNCHANGED download_status
  /\ UNCHANGED <<download_files, temp_dir, startVars, wpc, exc, downloaded_file, handlerVars>>

\* line 191: ydl.download returns; the engine has written its output into
\* the directory: a media file of some size, or a file whose extension is
\* not one of line 196
FileSizes == {1, 2}
WorkerDownloadReturns(size) ==
  /\ wpc = "l191"
  /\ temp_dir' = IF size > 0 THEN [temp_dir EXCEPT !.media = size]
                 ELSE [temp_dir EXCEPT !.other = TRUE]
  /\ wpc' = "l195"
  /\ UNCHANGED <<tables, startVars, exc, downloaded_file, handlerVars>>

\* line 191: ydl.download raises
WorkerDownloadFails(msg) ==
  /\ wpc = "l191"
  /\ wpc' = "except"
  /\ exc' = msg
  /\ UNCHANGED <<tables, temp_dir, startVars, downloaded_file, handlerVars>>

\* lines 194-209 and 220-221: scan the directory for a media file
WorkerScan ==
  /\ wpc = "l195"
  /\ IF temp_dir.exists /\ temp_dir.media > 0
     THEN wpc' = "l210" /\ exc' = exc /\ downloaded_file' = temp_dir.media
     ELSE /\ wpc' = "except"
          /\ exc' = (IF temp_dir.exists THEN MissingFileText
                     ELSE <<"[Errno 2] No such file or directory">>)
          /\ UNCHANGED downloaded_file
  /\ UNCHANGED <<tables, temp_dir, startVars, handlerVars>>

\* the dict built at lines 199-206 (path and filename are those of the
\* media file of temp_dir; size was read at line 198)
DownloadedFile == [size |-> downloaded_file, quality |-> quality]

\* line 210
WorkerAttach ==
  /\ wpc = "l210"
  /\ download_files' = Put(download_files, download_id, DownloadedFile)
  /\ wpc' = "l211"
  /\ UNCHANGED <<download_status, temp_dir, startVars, exc, downloaded_file, handlerVars>>

\* mutant of WorkerComplete: the record of lines 211-219 is written without
\* the file_size of line 217
WorkerCompleteNoSize ==
  /\ wpc = "l211"
  /\ download_status' = Put(download_status, download_id,
        StatusRec("completed", 100, "Download completed successfully!", 0, TRUE,
                  0, quality))
  /\ wpc' = "done"
  /\ downloaded_file' = 0
  /\ UNCHANGED <<download_files, temp_dir, startVars, exc, handlerVars>>

\* mutant of WorkerComplete: the raise of line 221 is not under the else, so
\* the worker goes on to its handler after recording completed
WorkerCompleteThenRaise ==
  /\ wpc = "l211"
  /\ download_status' = Put(download_status, download_id,
        StatusRec("completed", 100, "Download completed successfully!", 0, TRUE,
                  DownloadedFile.size, quality))
  /\ wpc' = "except"
  /\ exc' = MissingFileText
  /\ UNCHANGED <<download_files, temp_dir, startVars, downloaded_file, handlerVars>>

\* lines 211-219
WorkerComplete ==
  /\ wpc = "l211"
  /\ download_status' = Put(download_status, download_id,
        StatusRec("completed", 100, "Download completed successfully!", 0, TRUE,
                  DownloadedFile.size, quality))
  /\ wpc' = "done"
  /\ downloaded_file' = 0      \* the thread ends and its locals with it
  /\ UNCHANGED <<download_files, temp_dir, startVars, exc, handlerVars>>

\* mutant of WorkerExcept: the handler updates the record in place and
\* leaves its progress as it was
WorkerExceptKeepsProgress ==
  /\ wpc = "except"
  /\ download_status' = Put(download_status, download_id,
        StatusRec("error",
                  IF download_id \in DOMAIN download_status
                  THEN download_status[download_id].progress ELSE 0,
                  CleanErrorMessage(exc), 0, FALSE, 0, ""))
  /\ wpc' = "done"
  /\ UNCHANGED <<download_files, temp_dir, startVars, exc, downloaded_file, handlerVars>>

\* lines 223-239
WorkerExcept ==
  /\ wpc = "except"
  /\ download_status' = Put(download_status, download_id,
        StatusRec("error", 0, CleanErrorMessage(exc), 0, FALSE, 0, ""))
  /\ wpc' = "done"
  /\ UNCHANGED <<download_files, temp_dir, startVars, exc, downloaded_file, handlerVars>>

download_video ==
  \/ WorkerInit
  \/ WorkerExtractMsg
  \/ WorkerExtractInfo
  \/ \E msg \in EngineErrors : WorkerExtractFails(msg)
  \/ WorkerRecordInfo
  \/ \E d \in ProgressEvents : progress_hook(d)
  \/ \E size \in FileSizes \cup {0} : WorkerDownloadReturns(size)
  \/ \E msg \in EngineErrors : WorkerDownloadFails(msg)
  \/ WorkerScan
  \/ WorkerAttach
  \/ WorkerComplete
  \/ WorkerExcept

\* ------------------------------------------------------ get_download_status
\* A request is in flight while rpc is a line number; ret200, ret404 and
\* ret500 are the response of the last request (500: an exception that the
\* handler does not catch).
InFlight(pc) == pc \notin {"idle", "ret200", "ret404", "ret500"}

\* lines 306-307
StatusCheck ==
  /\ ~InFlight(rpc)
  /\ rpc' = IF download_id \in DOMAIN download_status THEN "l309" ELSE "ret404"
  /\ UNCHANGED <<tables, temp_dir, startVars, workerVars, fpc, dpc, cpc>>

\* line 309: download_status[download_id].copy()
StatusCopy ==
  /\ rpc = "l309"
  /\ rpc' = IF download_id \in DOMAIN download_status THEN "l312" ELSE "ret500"
  /\ UNCHANGED <<tables, temp_dir, startVars, workerVars, fpc, dpc, cpc>>

\* lines 312 and 317-320
StatusFileCheck ==
  /\ rpc = "l312"
  /\ rpc' = IF download_id \in DOMAIN download_files THEN "l313" ELSE "ret200"
  /\ UNCHANGED <<tables, temp_dir, startVars, workerVars, fpc, dpc, cpc>>

\* lines 313-316 and 320: file_info = download_files[download_id]
StatusFileInfo ==
  /\ rpc = "l313"
  /\ rpc' = IF download_id \in DOMAIN download_files THEN "ret200" ELSE "ret500"
  /\ UNCHANGED <<tables, temp_dir, startVars, workerVars, fpc, dpc, cpc>>

get_download_status == StatusCheck \/ StatusCopy \/ StatusFileCheck \/ StatusFileInfo

\* ------------------------------------------------------------ download_file
ThreadsStarted == BagCardinality(dpc)

\* lines 325-326; a request is taken only while a cleanup thread of the
\* model is left for it to start
FileCheck ==
  /\ ~InFlight(fpc)
  /\ ThreadsStarted < MaxDeferred
  /\ fpc' = IF download_id \in DOMAIN download_files THEN "l328" ELSE "ret404"
  /\ UNCHANGED <<tables, temp_dir, startVars, workerVars, rpc, dpc, cpc>>

\* lines 328-329: file_info = download_files[download_id]
FileInfo ==
  /\ fpc = "l328"
  /\ fpc' = IF download_id \in DOMAIN download_files THEN "l331" ELSE "ret500"
  /\ UNCHANGED <<tables, temp_dir, startVars, workerVars, rpc, dpc, cpc>>

\* mutant of FileSchedule: the cleanup thread is started before the test of
\* line 331
FileScheduleBeforeCheck ==
  /\ fpc = "l331"
  /\ fpc' = IF FileExists THEN "l355" ELSE "ret404"
  /\ dpc' = dpc (+) SetToBag({"sleep"})
  /\ UNCHANGED <<tables, temp_dir, startVars, workerVars, rpc, cpc>>

\* lines 331-332 and 351-353: os.path.exists(file_path), then start the
\* cleanup thread, which goes to sleep (line 336)
FileSchedule ==
  /\ fpc = "l331"
  /\ IF FileExists
     THEN /\ fpc' = "l355"
          /\ dpc' = dpc (+) SetToBag({"sleep"})
     ELSE /\ fpc' = "ret404"
          /\ UNCHANGED dpc
  /\ UNCHANGED <<tables, temp_dir, startVars, workerVars, rpc, cpc>>

\* lines 355-359: send_file opens the file
FileSend ==
  /\ fpc = "l355"
  /\ fpc' = IF FileExists THEN "ret200" ELSE "ret500"
  /\ UNCHANGED <<tables, temp_dir, startVars, workerVars, rpc, dpc, cpc>>

download_file == FileCheck \/ FileInfo \/ FileSchedule \/ FileSend

\* ------------------------------------------------- download_file.cleanup
\* A step of a cleanup thread standing at line from.
DGoto(from, to) ==
  /\ CopiesIn(from, dpc) > 0
  /\ dpc' = Move(dpc, from, to)
  /\ UNCHANGED <<startVars, workerVars, rpc, fpc, cpc>>

\* lines 336-338: the sleep ends; os.path.exists(file_path).  The thread is
\* started by a retrieval, which needs the record of line 210: the worker
\* then has the one statement of line 211 left, and the sleep of 30 seconds
\* outlasts it.
DeferredWake ==
  /\ wpc = "done"
  /\ DGoto("sleep", IF FileExists THEN "l339" ELSE "l341")
  /\ UNCHANGED <<tables, temp_dir>>

\* line 339: os.remove(file_path); FileNotFoundError goes to line 348
DeferredRemove ==
  /\ IF FileExists
     THEN temp_dir' = [temp_dir EXCEPT !.media = 0] /\ DGoto("l339", "l341")
     ELSE UNCHANGED temp_dir /\ DGoto("l339", "err")
  /\ UNCHANGED tables

\* line 341, left operand: os.path.exists(temp_dir)
DeferredDirExists ==
  /\ DGoto("l341", IF temp_dir.exists THEN "l341b" ELSE "l344")
  /\ UNCHANGED <<tables, temp_dir>>

\* line 341, right operand: not os.listdir(temp_dir)
DeferredListdir ==
  /\ DGoto("l341b", IF ~temp_dir.exists THEN "err" ELSE IF DirEmpty THEN "l342" ELSE "l344")
  /\ UNCHANGED <<tables, temp_dir>>

\* line 342: os.rmdir(temp_dir)
DeferredRmdir ==
  /\ IF temp_dir.exists /\ DirEmpty
     THEN temp_dir' = NoDir /\ DGoto("l342", "l344")
     ELSE UNCHANGED temp_dir /\ DGoto("l342", "err")
  /\ UNCHANGED tables

\* line 344
DeferredStatusCheck ==
  /\ DGoto("l344", IF download_id \in DOMAIN download_status THEN "l345" ELSE "l346")
  /\ UNCHANGED <<tables, temp_dir>>

\* line 345: del download_status[download_id]
DeferredStatusDel ==
  /\ IF download_id \in DOMAIN download_status
     THEN download_status' = Del(download_status, download_id) /\ DGoto("l345", "l346")
     ELSE UNCHANGED download_status /\ DGoto("l345", "err")
  /\ UNCHANGED <<download_files, temp_dir>>

\* line 346
DeferredFilesCheck ==
  /\ DGoto("l346", IF download_id \in DOMAIN download_files THEN "l347" ELSE "ok")
  /\ UNCHANGED <<tables, temp_dir>>

\* line 347: del download_files[download_id]
DeferredFilesDel ==
  /\ IF download_id \in DOMAIN download_files
     THEN download_files' = Del(download_files, download_id) /\ DGoto("l347", "ok")
     ELSE UNCHANGED download_files /\ DGoto("l347", "err")
  /\ UNCHANGED <<download_status, temp_dir>>

cleanup ==
  \/ DeferredWake
  \/ DeferredRemove
  \/ DeferredDirExists
  \/ DeferredListdir
  \/ DeferredRmdir
  \/ DeferredStatusCheck
  \/ DeferredStatusDel
  \/ DeferredFilesCheck
  \/ DeferredFilesDel

\* ---------------------------------------------------------- cleanup_download
\* A step of a DELETE /cleanup request standing at line from.
CGoto(from, to) ==
  /\ CopiesIn(from, cpc) > 0
  /\ cpc' = Move(cpc, from, to)
  /\ UNCHANGED <<startVars, workerVars, rpc, fpc, dpc>>

\* line 365
NowFilesCheck(from) ==
  /\ ~InFlight(from)
  /\ CGoto(from, IF download_id \in DOMAIN download_files THEN "l366" ELSE "l374")
  /\ UNCHANGED <<tables, temp_dir>>

\* line 366: file_path = download_files[download_id]['path']
NowFilePath ==
  /\ CGoto("l366", IF download_id \in DOMAIN download_files THEN "l367" ELSE "ret500")
  /\ UNCHANGED <<tables, temp_dir>>

\* line 367
NowFileExists ==
  /\ CGoto("l367", IF FileExists THEN "l368" ELSE "l370")
  /\ UNCHANGED <<tables, temp_dir>>

\* line 368: os.remove(file_path); FileNotFoundError goes to line 378
NowRemove ==
  /\ IF FileExists
     THEN temp_dir' = [temp_dir EXCEPT !.media = 0] /\ CGoto("l368", "l370")
     ELSE UNCHANGED temp_dir /\ CGoto("l368", "ret500")
  /\ UNCHANGED tables

\* line 370, left operand: os.path.exists(temp_dir)
NowDirExists ==
  /\ CGoto("l370", IF temp_dir.exists THEN "l370b" ELSE "l372")
  /\ UNCHANGED <<tables, temp_dir>>

\* line 370, right operand: not os.listdir(temp_dir)
NowListdir ==
  /\ CGoto("l370b", IF ~temp_dir.exists THEN "ret500" ELSE IF DirEmpty THEN "l371" ELSE "l372")
  /\ UNCHANGED <<tables, temp_dir>>

\* line 371: os.rmdir(temp_dir)
NowRmdir ==
  /\ IF temp_dir.exists /\ DirEmpty
     THEN temp_dir' = NoDir /\ CGoto("l371", "l372")
     ELSE UNCHANGED temp_dir /\ CGoto("l371", "ret500")
  /\ UNCHANGED tables

\* line 372: del download_files[download_id]
NowFilesDel ==
  /\ IF download_id \in DOMAIN download_files
     THEN download_files' = Del(download_files, download_id) /\ CGoto("l372", "l374")
     ELSE UNCHANGED download_files /\ CGoto("l372", "ret500")
  /\ UNCHANGED <<download_status, temp_dir>>

\* mutant of NowStatusCheck: the membership test of line 374 is left out
NowStatusCheckNoTest ==
  /\ CGoto("l374", "l375")
  /\ UNCHANGED <<tables, temp_dir>>

\* line 374 (and 377 when there is nothing to delete)
NowStatusCheck ==
  /\ CGoto("l374", IF download_id \in DOMAIN download_status THEN "l375" ELSE "ret200")
  /\ UNCHANGED <<tables, temp_dir>>

\* lines 375 and 377: del download_status[download_id]
NowStatusDel ==
  /\ IF download_id \in DOMAIN download_status
     THEN download_status' = Del(download_status, download_id) /\ CGoto("l375", "ret200")
     ELSE UNCHANGED download_status /\ CGoto("l375", "ret500")
  /\ UNCHANGED <<download_files, temp_dir>>

cleanup_download ==
  \/ \E from \in {"idle", "ret200", "ret500"} : NowFilesCheck(from)
  \/ NowFilePath
  \/ NowFileExists
  \/ NowRemove
  \/ NowDirExists
  \/ NowListdir
  \/ NowRmdir
  \/ NowFilesDel
  \/ NowStatusCheck
  \/ NowStatusDel

\* ------------------------------------------------------------ specification
Next ==
  \/ start_download
  \/ download_video
  \/ get_download_status
  \/ download_file
  \/ cleanup
  \/ cleanup_download

Spec == Init /\ [][Next]_vars

\* The statements of the worker thread apart from the calls of progress_hook:
\* the interpreter schedules the thread, and extract_info and download are
\* taken to return or raise.
WorkerStep ==
  \/ WorkerInit
  \/ WorkerExtractMsg
  \/ WorkerExtractInfo
  \/ \E msg \in EngineErrors : WorkerExtractFails(msg)
  \/ WorkerRecordInfo
  \/ \E size \in FileSizes \cup {0} : WorkerDownloadReturns(size)
  \/ \E msg \in EngineErrors : WorkerDownloadFails(msg)
  \/ WorkerScan
  \/ WorkerAttach
  \/ WorkerComplete
  \/ WorkerExcept

SpecFair == Spec /\ WF_vars(WorkerStep)

\* DELETE /cleanup requests served in sequence: while one is between line
\* 365 and its response no other thread runs and no other request is taken.
NowAtRest ==
  CopiesIn("idle", cpc) + CopiesIn("ret200", cpc) + CopiesIn("ret500", cpc) = MaxNow
NowStep ==
  \/ NowFilePath
  \/ NowFileExists
  \/ NowRemove
  \/ NowDirExists
  \/ NowListdir
  \/ NowRmdir
  \/ NowFilesDel
  \/ NowStatusCheck
  \/ NowStatusDel
NextSeq ==
  \/ NowAtRest /\ Next
  \/ ~NowAtRest /\ NowStep

SpecSeq == Init /\ [][NextSeq]_vars

\* The handler of lines 223-239 applied to the messages an exception can
\* carry: the worker has caught, during the transfer of line 191, an
\* exception whose message is any sequence of distinct fragments.
Fragments ==
  {"ERROR: ", "Remote end closed connection", "HTTP Error 403", "Video unavailable",
   "Private video"}
ErrorMessages ==
  {m \in UNION {[1..n -> Fragments] : n \in 1..MaxFragments} :
     \A i, j \in 1..Len(m) : i # j => m[i] # m[j]}

InitMsg ==
  /\ download_status = Put(EmptyDict, download_id,
        StatusRec("downloading", 0, "Starting download...", 0, TRUE, 0, ""))
  /\ download_files = EmptyDict
  /\ temp_dir = FreshDir
  /\ startResp = "200"
  /\ startUrl = "https://youtu.be/abc"
  /\ quality = "auto"
  /\ wpc = "except"
  /\ exc \in ErrorMessages
  /\ downloaded_file = 0
  /\ rpc = "idle"
  /\ fpc = "idle"
  /\ dpc = EmptyBag
  /\ cpc = [l \in {"idle"} |-> MaxNow]

SpecMsg == InitMsg /\ [][WorkerExcept]_vars

\* Retrievals of a completed download with the time of the sleeps: a thread
\* started at line 353 sleeps 30 seconds (line 336), kept as the lines
\* sleep30, sleep15 and sleep0 of the thread; a tick of the clock is 15
\* seconds and takes every sleeping thread one line on.
InitGrace ==
  /\ download_status = Put(EmptyDict, download_id,
        StatusRec("completed", 100, "Download completed successfully!", 0, TRUE, 2, "auto"))
  /\ download_files = Put(EmptyDict, download_id, [size |-> 2, quality |-> "auto"])
  /\ temp_dir = [FreshDir EXCEPT !.media = 2]
  /\ startResp = "200"
  /\ startUrl = "https://youtu.be/abc"
  /\ quality = "auto"
  /\ wpc = "done"
  /\ exc = <<>>
  /\ downloaded_file = 0
  /\ rpc = "idle"
  /\ fpc = "idle"
  /\ dpc = EmptyBag
  /\ cpc = [l \in {"idle"} |-> MaxNow]

\* lines 325-326
FileCheckTimed ==
  /\ ~InFlight(fpc)
  /\ ThreadsStarted < MaxRetrieves
  /\ fpc' = IF download_id \in DOMAIN download_files THEN "l328" ELSE "ret404"
  /\ UNCHANGED <<tables, temp_dir, startVars, workerVars, rpc, dpc, cpc>>

\* lines 331-332 and 351-353, the thread starting its sleep of 30 seconds
FileScheduleTimed ==
  /\ fpc = "l331"
  /\ IF FileExists
     THEN /\ fpc' = "l355"
          /\ dpc' = dpc (+) SetToBag({"sleep30"})
     ELSE /\ fpc' = "ret404"
          /\ UNCHANGED dpc
  /\ UNCHANGED <<tables, temp_dir, startVars, workerVars, rpc, cpc>>

\* 15 seconds pass
Tick ==
  /\ CopiesIn("sleep30", dpc) + CopiesIn("sleep15", dpc) > 0
  /\ dpc' =
       LET lines == (DOMAIN dpc \ {"sleep30", "sleep15"})
                      \cup (IF CopiesIn("sleep30", dpc) > 0 THEN {"sleep15"} ELSE {})
                      \cup (IF CopiesIn("sleep15", dpc) > 0 THEN {"sleep0"} ELSE {})
       IN [l \in lines |->
             CASE l = "sleep15" -> CopiesIn("sleep30", dpc)
               [] l = "sleep0" -> CopiesIn("sleep15", dpc) + CopiesIn("sleep0", dpc)
               [] OTHER -> dpc[l]]
  /\ UNCHANGED <<tables, temp_dir, startVars, workerVars, rpc, fpc, cpc>>

\* lines 336-338: the sleep has lasted 30 seconds; os.path.exists(file_path)
DeferredWakeTimed ==
  /\ DGoto("sleep0", IF FileExists THEN "l339" ELSE "l341")
  /\ UNCHANGED <<tables, temp_dir>>

NextGrace ==
  \/ FileCheckTimed
  \/ FileInfo
  \/ FileScheduleTimed
  \/ FileSend
  \/ Tick
  \/ DeferredWakeTimed
  \/ DeferredRemove
  \/ DeferredDirExists
  \/ DeferredListdir
  \/ DeferredRmdir
  \/ DeferredStatusCheck
  \/ DeferredStatusDel
  \/ DeferredFilesCheck
  \/ DeferredFilesDel

SpecGrace == InitGrace /\ [][NextGrace]_vars

\* ------------------------------------------------------------ state views
InStatus == download_id \in DOMAIN download_status
InFiles == download_id \in DOMAIN download_files
StatusIs(st) == InStatus /\ download_status[download_id].status = st
Terminal == {"completed", "error"}
\* no DELETE /cleanup request has been made and no cleanup thread started
NoCleanupYet == CopiesIn("idle", cpc) = MaxNow /\ ThreadsStarted = 0
DeferredEnded == CopiesIn("ok", dpc) + CopiesIn("err", dpc)

\* ================================================================== claims

\* C1: once start_download has accepted the request, the status table holds
\* a record with status pending for the download before the worker thread
\* runs, and a status read begun after acceptance, with no cleanup made yet,
\* is not answered 404.
C1_PendingVisible ==
  /\ [](wpc = "spawned" => StatusIs("pending"))
  /\ [][(startResp = "200" /\ NoCleanupYet /\ StatusCheck) => rpc' # "ret404"]_vars

\* C2: while the status of the download is downloading, no update of the
\* status record lowers its progress.
C2_ProgressMonotone ==
  [][(StatusIs("downloading") /\ StatusIs("downloading")')
       => download_status'[download_id].progress >= download_status[download_id].progress]_vars

\* C3: in every state, intermediate ones included, download_files holds a
\* record for the download exactly when download_status holds one with
\* status completed.
C3_ResultIffCompleted == InFiles <=> StatusIs("completed")

\* C4: no cleanup of the download, delayed thread or DELETE /cleanup request,
\* ends in an error, however the cleanups of the same download interleave.
C4_DuplicateCleanupNoError == CopiesIn("ret500", cpc) = 0 /\ CopiesIn("err", dpc) = 0

\* C5: a status record that says completed or error keeps that status until
\* it is removed, and once removed after the worker has ended it does not
\* come back.
C5_TerminalIsFinal ==
  [][/\ \A st \in Terminal : StatusIs(st) => (~InStatus' \/ StatusIs(st)')
     /\ (wpc = "done" /\ ~InStatus) => ~InStatus']_vars

\* C5 witness: the record says completed while a status read, a retrieval and
\* a DELETE /cleanup request are all in flight.
C5_Witness ==
  /\ StatusIs("completed")
  /\ InFlight(rpc) /\ InFlight(fpc)
  /\ CopiesIn("l375", cpc) > 0

\* C6: when a cleanup thread started by a successful retrieval ends, the
\* worker having ended, both tables are without the download and its file is
\* deleted.
C6_DeferredCleanupRemoves ==
  [][(wpc = "done" /\ fpc = "ret200" /\ DeferredEnded' > DeferredEnded)
       => (~InStatus' /\ ~InFiles' /\ ~FileExists')]_vars

\* C7: when os.remove, os.listdir or os.rmdir fails in a DELETE /cleanup
\* request, the request is answered with an error and both table entries of
\* the download are removed all the same.
C7_FailedCleanupStillRemoves ==
  [][((NowRemove \/ NowListdir \/ NowRmdir)
        /\ CopiesIn("ret500", cpc') > CopiesIn("ret500", cpc))
       => (~InStatus' /\ ~InFiles')]_vars

\* C8: a status read is answered with the record or with 404, never with
\* another error.
C8_StatusReadNeverFails == rpc # "ret500"

\* C9: a record with status downloading has a progress of 0 to ProgressCap,
\* and a record has progress 100 only with status completed.
C9_ProgressRange ==
  InStatus =>
    LET r == download_status[download_id] IN
      /\ r.status = "downloading" => (0 <= r.progress /\ r.progress <= ProgressCap)
      /\ r.progress = 100 => r.status = "completed"

\* C9 witness: an in-progress event that reported more bytes than the total
\* has been recorded.
C9_Witness ==
  /\ StatusIs("downloading")
  /\ download_status[download_id].pct > 100
  /\ download_status[download_id].progress = ProgressCap

\* C10: a worker that caught an exception is in its handler or has ended, and
\* once it has ended the record of the download, unless removed, says error
\* with progress 0.
C10_FailureRecorded ==
  exc # NoException =>
    /\ wpc \in {"except", "done"}
    /\ wpc = "done" =>
         (~InStatus \/ (StatusIs("error") /\ download_status[download_id].progress = 0))

\* C10 witness: the transfer returned, no media file was found in the
\* directory, and the worker has ended with the error recorded.
C10_Witness ==
  /\ wpc = "done"
  /\ exc = MissingFileText
  /\ StatusIs("error")
  /\ download_status[download_id].progress = 0


\* C11: when the transfer has returned and the directory holds a media file,
\* the worker ends without an exception, having written the record
\* completed / 100 / 'Download completed successfully!' and attached a file
\* record whose size is the file_size of the status record and whose quality
\* is the selector of the job.  The scan fails only when there is no media
\* file; entries can be missing afterwards only when a cleanup removed them.
WorkerSucceeded == wpc = "done" /\ exc = NoException
C11_CompletedWithFile ==
  /\ exc = MissingFileText => ~FileExists
  /\ wpc \in {"l210", "l211"} => exc = NoException /\ downloaded_file \in FileSizes
  /\ wpc = "l211" /\ NoCleanupYet => InFiles
  /\ InFiles =>
        /\ download_files[download_id].quality = quality
        /\ download_files[download_id].size \in FileSizes
        /\ FileExists => download_files[download_id].size = temp_dir.media
  /\ WorkerSucceeded /\ InStatus =>
        /\ download_status[download_id].status = "completed"
        /\ download_status[download_id].progress = 100
        /\ download_status[download_id].message = "Download completed successfully!"
        /\ download_status[download_id].quality = quality
        /\ download_status[download_id].file_size \in FileSizes
        /\ InFiles => download_files[download_id].size
                         = download_status[download_id].file_size
  /\ WorkerSucceeded /\ NoCleanupYet => InStatus /\ InFiles

\* the worker has completed a job whose selector "bogus" became "auto"
C11_Witness ==
  /\ WorkerSucceeded /\ InStatus /\ InFiles
  /\ download_status[download_id].status = "completed"
  /\ download_status[download_id].file_size = 2
  /\ download_files[download_id].size = 2
  /\ download_files[download_id].quality = "auto"


\* C12: a retrieval that finds no file record at line 325, or whose recorded
\* path does not exist at line 331, is answered 404 and starts no cleanup
\* thread; a retrieval is answered 200 only after it has started a cleanup
\* thread, and no step of a retrieval other than that one start changes the
\* number of cleanup threads.
C12_RetrieveSchedulesOnce ==
  [][ /\ (~InFlight(fpc) /\ fpc' # fpc /\ ~InFiles)
            => fpc' = "ret404" /\ dpc' = dpc
      /\ (fpc = "l331" /\ fpc' # fpc /\ ~FileExists)
            => fpc' = "ret404" /\ dpc' = dpc
      /\ (fpc' = "ret200" /\ fpc # "ret200") => fpc = "l355"
      /\ (fpc' = "l355" /\ fpc # "l355")
            => fpc = "l331" /\ FileExists /\ dpc' = dpc (+) SetToBag({"sleep"})
      /\ (fpc' # fpc /\ fpc' # "l355") => dpc' = dpc
    ]_vars

\* a retrieval has been answered 200 and its one cleanup thread exists
C12_Witness == fpc = "ret200" /\ ThreadsStarted = 1


\* C13: when the thread is scheduled and the calls of the engine return or
\* raise, every started worker reaches its end, a record with status
\* downloading does not stay for ever, and the last statement of the worker
\* writes a record with status completed or error, also after a cleanup has
\* deleted the record of the running worker.
C13_WorkerTerminates ==
  /\ (wpc = "spawned") ~> (wpc = "done")
  /\ StatusIs("downloading") ~> ~StatusIs("downloading")
  /\ [][ (wpc' = "done" /\ wpc # "done")
           => download_id \in DOMAIN download_status'
              /\ download_status'[download_id].status \in Terminal ]_vars

\* the worker has ended with status error after a cleanup deleted its record
\* while it ran
C13_Witness == wpc = "done" /\ exc = KeyErrorText /\ StatusIs("error")


\* C14: with the DELETE /cleanup requests served in sequence, no request is
\* answered 500; a request returns 200 leaving neither a status record nor a
\* file record; and a request made when neither record exists changes
\* neither the tables nor the directory and returns 200.  So a second
\* request right after a first leaves the state of the first.
C14_CleanupIdempotent ==
  /\ [](CopiesIn("ret500", cpc) = 0)
  /\ [][ /\ CopiesIn("ret200", cpc') > CopiesIn("ret200", cpc)
              => download_id \notin DOMAIN download_status'
                 /\ download_id \notin DOMAIN download_files'
         /\ (cpc' # cpc /\ ~InStatus /\ ~InFiles)
              => /\ UNCHANGED <<tables, temp_dir>>
                 /\ \A l \in {"l366", "l367", "l368", "l370", "l370b", "l371",
                             "l372", "l375"} : CopiesIn(l, cpc') = 0
                 /\ CopiesIn("l374", cpc) > 0
                      => CopiesIn("ret200", cpc') > CopiesIn("ret200", cpc)
     ]_vars

\* a request made after an earlier one removed the job of a finished worker
\* stands at line 374 and finds nothing
C14_Witness ==
  /\ CopiesIn("l374", cpc) = 1 /\ ~InStatus /\ ~InFiles
  /\ wpc = "done" /\ ThreadsStarted = 0


\* C15: the message of the error record is the sentence of the first of
\* 'Remote end closed connection', 'HTTP Error 403', 'Video unavailable',
\* 'Private video', in this order, that occurs in the message of the
\* exception, and the message of the exception itself when none occurs; a
\* message with 'HTTP Error 403' and without 'Remote end closed connection'
\* gives the access-denied sentence.
HandlerOrder ==
  <<"Remote end closed connection", "HTTP Error 403", "Video unavailable", "Private video">>
HandlerSentences ==
  <<"Connection lost during download. Please try again with a different quality or check your internet connection.",
    "Access denied. This video might be restricted or require authentication.",
    "This video is not available for download.",
    "This is a private video and cannot be downloaded.">>
FirstMatch(msg) ==
  IF \E k \in DOMAIN HandlerOrder : Contains(msg, HandlerOrder[k])
  THEN CHOOSE k \in DOMAIN HandlerOrder :
         /\ Contains(msg, HandlerOrder[k])
         /\ \A j \in DOMAIN HandlerOrder : j < k => ~Contains(msg, HandlerOrder[j])
  ELSE 0
C15_FirstMatchDecides ==
  (wpc = "done" /\ exc # NoException /\ InStatus) =>
    /\ download_status[download_id].status = "error"
    /\ download_status[download_id].message =
          (IF FirstMatch(exc) = 0 THEN Text(exc) ELSE HandlerSentences[FirstMatch(exc)])
    /\ (Contains(exc, "HTTP Error 403") /\ ~Contains(exc, "Remote end closed connection"))
          => download_status[download_id].message
               = "Access denied. This video might be restricted or require authentication."

\* the handler has run on a message that names three of the substrings, the
\* later ones first
C15_Witness ==
  /\ wpc = "done"
  /\ exc = <<"Private video", "Video unavailable", "HTTP Error 403">>
  /\ StatusIs("error")
  /\ download_status[download_id].message
       = "Access denied. This video might be restricted or require authentication."


\* C16: a POST /download whose url is missing or is refused by
\* is_valid_youtube_url is answered 400 and leaves the two tables, the
\* directory, the quality and every thread and request as they were: no
\* directory is made and no worker is started.
C16_RejectedStartChangesNothing ==
  [][ (<<startResp, startUrl>>' # <<startResp, startUrl>>
         /\ (startUrl' = "" \/ ~is_valid_youtube_url(startUrl')))
      => /\ startResp' = "400"
         /\ UNCHANGED <<tables, temp_dir, quality, workerVars, handlerVars>>
    ]_vars

\* a url that is not a YouTube url has been refused and nothing exists
C16_Witness ==
  /\ startResp = "400" /\ startUrl = "not a url"
  /\ wpc = "idle" /\ ~temp_dir.exists /\ ~InStatus /\ ~InFiles


\* the record is the one written for a unit-finished event, and the handler
\* is about to run because the scan found no media file
FinishedThenMissing ==
  /\ wpc = "except" /\ exc = MissingFileText /\ InStatus
  /\ download_status[download_id].progress = ProgressCap
  /\ download_status[download_id].message = "Processing and finalizing..."

\* C17 as stated: after a unit-finished event (progress 99) and a scan that
\* finds no media file, the record gets status error and keeps progress 99.
C17_ProgressFrozen ==
  [][ (FinishedThenMissing /\ wpc' = "done")
      => /\ download_status'[download_id].status = "error"
         /\ download_status'[download_id].progress = ProgressCap ]_vars

\* C17 amended: after a unit-finished event (progress 99) and a scan that
\* finds no media file, the record gets status error and progress 0: the 99
\* of the event is not kept.
C17_ProgressReset ==
  [][ (FinishedThenMissing /\ wpc' = "done")
      => /\ download_status'[download_id].status = "error"
         /\ download_status'[download_id].progress = 0
         /\ download_status'[download_id].message = "Downloaded file not found" ]_vars

\* the record shows the 99 of a unit-finished event, the scan has found no
\* media file among the files of the directory, and the handler runs next
C17_Witness == FinishedThenMissing /\ temp_dir.other /\ ~FileExists


\* C18: in a record written for an in-progress event, the percent of the
\* message 'Downloading... {percent}%' is the value of the progress field,
\* which lies between 0 and 99.
C18_MessagePercentIsProgress ==
  (InStatus /\ download_status[download_id].message = "Downloading...")
    => /\ download_status[download_id].pct = download_status[download_id].progress
       /\ download_status[download_id].progress \in 0..ProgressCap


\* the worker has written its first record, and the download is in neither
\* table: a cleanup has removed it
RemovedByCleanup ==
  wpc \notin {"idle", "spawned"} /\ ~InStatus /\ ~InFiles

\* C19: once a cleanup has removed the entries of a download, the download
\* stays absent from both tables: no later step of its worker writes a
\* status record or a file record for it.
C19_RemovedStaysAbsent ==
  [][ RemovedByCleanup
      => download_id \notin DOMAIN download_status'
         /\ download_id \notin DOMAIN download_files' ]_vars


\* C20: when the worker has ended and the download has been removed from
\* both tables, the directory made for it by start_download no longer
\* exists; in particular after a DELETE /cleanup answered 200 for a download
\* that ended in error.
C20_TempDirGoneWithJob ==
  (wpc = "done" /\ ~InStatus /\ ~InFiles) => ~temp_dir.exists


\* some cleanup thread has slept less than its 30 seconds
GraceRunning == CopiesIn("sleep30", dpc) + CopiesIn("sleep15", dpc) > 0

\* C21: a cleanup thread does not delete the file before 30 seconds have
\* passed since the last retrieval answered 200: when the last retrieval
\* was answered 200 and the thread it started still sleeps, the file is not
\* removed.
C21_GraceFromLastRetrieve ==
  [][ (FileExists /\ ~FileExists' /\ fpc = "ret200") => ~GraceRunning ]_vars

====
